---- MODULE Spec2Model ----
(***************************************************************************)
(* SamServerlessApplicationProvider                                        *)
(* (samcli/lib/providers/sam_serverless_application_provider.py).          *)
(*                                                                         *)
(* The provider is built once from a template dictionary and then answers  *)
(* get(name) and get_all().  Python values are modelled as tagged records  *)
(* [t, v]: None, strings and dictionaries, so that dict.get with a         *)
(* default, truthiness tests and == comparisons are computed as Python     *)
(* computes them.  A dict that is iterated (Resources, the provider's      *)
(* index) keeps its insertion order: it is a sequence of <<key, value>>    *)
(* pairs with distinct keys.  Other dicts are functions from keys to       *)
(* values.                                                                 *)
(*                                                                         *)
(* Reading of the file.  The keyword-argument list of lines 163-170 lacks  *)
(* the comma after location=location, and ServerlessApplication is used    *)
(* without an import; the model reads the call as the argument list it     *)
(* spells, building a record with exactly the six named fields.            *)
(* SERVERLESS_APPLICATION and get_template come from SamBaseProvider,      *)
(* which is not among the sources.                                         *)
(***************************************************************************)
EXTENDS Integers, Sequences, FiniteSets, TLC

VARIABLES
    pc,             \* "constructing" until __init__ returns, then "ready"
    template_dict,  \* the caller's template dictionary (one heap object)
    input0,         \* the template dictionary as it was passed to __init__
    self,           \* the provider's attribute dictionary (name -> value)
    result          \* the last query: [op, arg, raises, value]

vars == <<pc, template_dict, input0, self, result>>

----------------------------------------------------------------------------
(* Bounds *)

MaxResources == 2

LogicalIds == <<"App1", "App2", "App3", "App4">>

----------------------------------------------------------------------------
(* Python values *)

None == [t |-> "none", v |-> ""]

Str(s) == [t |-> "str", v |-> s]

Dict(f) == [t |-> "dict", v |-> f]

EmptyDict == [k \in {} |-> None]

\* bool(x): None, "" and {} are false
Truthy(x) ==
    CASE x.t = "none" -> FALSE
      [] x.t = "str" -> x.v # ""
      [] x.t = "dict" -> DOMAIN x.v # {}
      [] OTHER -> TRUE

\* d.get(k, default) on a dict held as a function
Get(d, k, default) == IF k \in DOMAIN d THEN d[k] ELSE default

\* the keys of an insertion-ordered dict
Keys(od) == {od[i][1] : i \in 1..Len(od)}

\* the values of an insertion-ordered dict, in insertion order
Values(od) == [i \in 1..Len(od) |-> od[i][2]]

----------------------------------------------------------------------------
(* Constants of the program *)

\* samcli.lib.utils.packagetype.ZIP
ZIP == Str("Zip")

\* SamBaseProvider.SERVERLESS_APPLICATION
SERVERLESS_APPLICATION == Str("AWS::Serverless::Application")

\* the tag a nested application carries once the template is expanded
CLOUDFORMATION_STACK == Str("AWS::CloudFormation::Stack")

----------------------------------------------------------------------------
(* Inputs: the templates a caller can pass *)

\* marks a key the input dictionary does not hold
Absent == [t |-> "absent", v |-> ""]

\* the one-entry dict {k: x}, or {} when the key is absent
Entry(k, x) == IF x.t = "absent" THEN EmptyDict ELSE (k :> x)

TypeInputs == {Absent, SERVERLESS_APPLICATION, CLOUDFORMATION_STACK}

LocationInputs ==
    { Absent,
      Str("nested/template.yaml"),
      Str("s3://bucket/app.yaml"),
      Dict([ApplicationId |-> Str("arn:aws:serverlessrepo:app"),
            SemanticVersion |-> Str("1.0.0")]) }

PropertiesInputs == {Absent} \cup {Dict(Entry("Location", l)) : l \in LocationInputs}

MetadataInputs == {Absent, Dict([BuildMethod |-> Str("python3.8")])}

ResourceInputs ==
    { Entry("Type", ty) @@ Entry("Properties", p) @@ Entry("Metadata", m) :
        ty \in TypeInputs, p \in PropertiesInputs, m \in MetadataInputs }

\* Resources: logical id -> resource, in declaration order.  The code never
\* orders or inspects logical ids, so the n resources of a template are
\* declared under the first n ids.
ResourcesInputs ==
    UNION { { [i \in 1..n |-> <<LogicalIds[i], rs[i]>>] :
                rs \in [1..n -> ResourceInputs] } :
            n \in 0..MaxResources }

TemplateInputs == {EmptyDict} \cup {("Resources" :> od) : od \in ResourcesInputs}

\* the names a caller queries: absent, empty, logical ids, an unknown name
NameInputs == {None, Str("")} \cup {Str(LogicalIds[i]) : i \in 1..MaxResources} \cup {Str("does-not-exist")}

----------------------------------------------------------------------------
(* Record construction *)

\* ServerlessApplication(name=..., location=..., notification_arns=...,
\*                       parameters=..., tags=..., timeout=...)
_build_serverless_application_configuration(name, location, resource_properties) ==
    [ name              |-> name,
      location          |-> location,
      notification_arns |-> Get(resource_properties.v, "NotificationARNs", ZIP),
      parameters        |-> Get(resource_properties.v, "Parameters", None),
      tags              |-> Get(resource_properties.v, "Tags", None),
      timeout           |-> Get(resource_properties.v, "TimeoutInMinutes", None) ]

_convert_sam_serverless_application_resource(name, resource_properties, ignore_code_extraction_warnings) ==
    LET location == Get(resource_properties.v, "Location", None)
    IN  _build_serverless_application_configuration(name, location, resource_properties)

\* One iteration of the loop of _extract_serverless_applications: the property
\* view the iteration works on.  resource.get("Properties", {}) returns the
\* resource's own property dict when it has one, and the metadata is stored
\* into that dict.
resource_properties_of(resource) ==
    LET resource_properties == Get(resource, "Properties", Dict(EmptyDict))
        resource_metadata   == Get(resource, "Metadata", None)
    IN  IF Truthy(resource_metadata)
        THEN Dict(("Metadata" :> resource_metadata) @@ resource_properties.v)
        ELSE resource_properties

\* The resource as the iteration leaves it: the store into resource_properties
\* lands in the resource when the dict came from it, and in a fresh {} when
\* the resource has no "Properties".
resource_after(resource) ==
    IF "Properties" \in DOMAIN resource
    THEN [resource EXCEPT !["Properties"] = resource_properties_of(resource)]
    ELSE resource

is_serverless_application(resource) ==
    Get(resource, "Type", None) = SERVERLESS_APPLICATION

\* result[name] = ... for each resource of the recognized type, in the order
\* resources.items() yields them
RECURSIVE extract_loop(_, _)
extract_loop(resources, ignore_code_extraction_warnings) ==
    IF resources = <<>> THEN <<>>
    ELSE LET name     == Head(resources)[1]
             resource == Head(resources)[2]
             rest     == extract_loop(Tail(resources), ignore_code_extraction_warnings)
         IN  IF is_serverless_application(resource)
             THEN <<  <<name, _convert_sam_serverless_application_resource(
                                  Str(name), resource_properties_of(resource),
                                  ignore_code_extraction_warnings)>> >> \o rest
             ELSE rest

\* The call's return value and the resources dict as the call leaves it.
_extract_serverless_applications(resources, ignore_code_extraction_warnings) ==
    [ result    |-> extract_loop(resources, ignore_code_extraction_warnings),
      resources |-> [i \in 1..Len(resources) |->
                        <<resources[i][1], resource_after(resources[i][2])>>] ]

\* SamBaseProvider.get_template: the provider is handed a template that is
\* already resolved, so the call hands the dictionary on.
get_template(template, parameter_overrides) == template

----------------------------------------------------------------------------
(* Queries.  A call's outcome is [raises, value]: the exception it raises    *)
(* ("" when it returns) and the records it hands back, in order (<<>> for   *)
(* get returning None, <<f>> for get returning f).                          *)

Returns(records) == [raises |-> "", value |-> records]

Raises(exception) == [raises |-> exception, value |-> <<>>]

\* for _, application in self.applications.items(): yield application
\* Reading an attribute the object does not hold raises AttributeError.
get_all(obj) ==
    IF "applications" \notin DOMAIN obj
    THEN Raises("AttributeError")
    ELSE Returns(Values(obj["applications"].v))

\* The scan of get over what get_all yields: the first record, in the order
\* yielded, whose name or whose applicationname equals the queried name.
RECURSIVE get_scan(_, _)
get_scan(yielded, name) ==
    IF yielded = <<>> THEN Returns(<<>>)
    ELSE LET f == Head(yielded)
         IN  IF f.name = name THEN Returns(<<f>>)
             ELSE IF "applicationname" \notin DOMAIN f THEN Raises("AttributeError")
             ELSE IF f.applicationname = name THEN Returns(<<f>>)
             ELSE get_scan(Tail(yielded), name)

\* get without the test of lines 65-66: an empty name goes on to the scan
get_without_name_check(obj, name) ==
    LET all == get_all(obj)
    IN  IF all.raises # "" THEN Raises(all.raises)
        ELSE get_scan(all.value, name)

get(obj, name) ==
    IF ~Truthy(name)
    THEN Raises("ValueError")
    ELSE LET all == get_all(obj)
         IN  IF all.raises # "" THEN Raises(all.raises)
             ELSE get_scan(all.value, name)

----------------------------------------------------------------------------
(* The provider as a state machine *)

\* a reference to a heap object held in a variable of the model
Ref(what) == [t |-> "ref", v |-> what]

\* an insertion-ordered dict owned by the provider
OrderedDict(od) == [t |-> "odict", v |-> od]

NoQuery == [op |-> "", arg |-> None, raises |-> "", value |-> <<>>]

Init ==
    /\ pc = "constructing"
    /\ template_dict \in TemplateInputs
    /\ input0 = template_dict
    /\ self = EmptyDict
    /\ result = NoQuery

\* SamServerlessApplicationProvider(template_dict)
Construct ==
    /\ pc = "constructing"
    /\ LET parameter_overrides == None
           ignore_code_extraction_warnings == FALSE
           resolved  == get_template(template_dict, parameter_overrides)
           resources == Get(resolved, "Resources", <<>>)
           extracted == _extract_serverless_applications(
                            resources, ignore_code_extraction_warnings)
       IN  /\ template_dict' =
                  IF "Resources" \in DOMAIN resolved
                  THEN [resolved EXCEPT !["Resources"] = extracted.resources]
                  ELSE resolved
           /\ self' =
                  [ template_dict |-> Ref("template_dict"),
                    ignore_code_extraction_warnings |-> ignore_code_extraction_warnings,
                    resources |-> IF "Resources" \in DOMAIN resolved
                                  THEN Ref("template_dict.Resources")
                                  ELSE OrderedDict(<<>>),
                    functions |-> OrderedDict(extracted.result),
                    _colored  |-> Ref("Colored") ]
    /\ pc' = "ready"
    /\ UNCHANGED <<input0, result>>

\* provider.get(name)
GetCall ==
    /\ pc = "ready"
    /\ \E name \in NameInputs :
          LET out == get(self, name)
          IN  result' = [op |-> "get", arg |-> name,
                         raises |-> out.raises, value |-> out.value]
    /\ UNCHANGED <<pc, template_dict, input0, self>>

\* list(provider.get_all())
GetAllCall ==
    /\ pc = "ready"
    /\ LET out == get_all(self)
       IN  result' = [op |-> "get_all", arg |-> None,
                      raises |-> out.raises, value |-> out.value]
    /\ UNCHANGED <<pc, template_dict, input0, self>>

Next == Construct \/ GetCall \/ GetAllCall

Spec == Init /\ [][Next]_vars

----------------------------------------------------------------------------
(* The caller changing its template after the provider was built *)

\* del template_dict["Resources"][name]
RemoveResource ==
    /\ pc = "ready"
    /\ "Resources" \in DOMAIN template_dict
    /\ \E i \in 1..Len(template_dict["Resources"]) :
          LET od == template_dict["Resources"]
          IN  template_dict' =
                [template_dict EXCEPT !["Resources"] =
                    SubSeq(od, 1, i - 1) \o SubSeq(od, i + 1, Len(od))]
    /\ UNCHANGED <<pc, input0, self, result>>

\* template_dict["Resources"][name]["Type"] = "AWS::Serverless::Application"
RetypeResource ==
    /\ pc = "ready"
    /\ "Resources" \in DOMAIN template_dict
    /\ \E i \in 1..Len(template_dict["Resources"]) :
          LET od       == template_dict["Resources"]
              resource == od[i][2]
          IN  /\ ~is_serverless_application(resource)
              /\ template_dict' =
                    [template_dict EXCEPT !["Resources"] =
                        [od EXCEPT ![i] =
                            <<od[i][1],
                              ("Type" :> SERVERLESS_APPLICATION) @@ resource>>]]
    /\ UNCHANGED <<pc, input0, self, result>>

NextLive == Next \/ RemoveResource \/ RetypeResource

SpecLive == Init /\ [][NextLive]_vars

----------------------------------------------------------------------------
(* What the claims speak of *)

\* the resources as declared in the template passed to the constructor
Declared == Get(input0, "Resources", <<>>)

\* the provider's index once it is ready: logical id -> record
Index == self["functions"].v

\* the record the index holds under a logical id
RecordOf(id) == (CHOOSE e \in {Index[k] : k \in 1..Len(Index)} : e[1] = id)[2]

HasTag(resource, tag) == "Type" \in DOMAIN resource /\ resource["Type"] = tag

DeclaredProperties(resource) == Get(resource, "Properties", Dict(EmptyDict))

\* the logical ids declared under the provider's type tag, in declaration order
RecognizedIds ==
    LET Tagged(e) == HasTag(e[2], SERVERLESS_APPLICATION)
        kept      == SelectSeq(Declared, Tagged)
    IN  [k \in 1..Len(kept) |-> kept[k][1]]

\* a record carries a displayName when it has the field and the field is set
HasDisplayName(f) == "applicationname" \in DOMAIN f /\ Truthy(f.applicationname)

MatchesByDisplayName(f, name) == HasDisplayName(f) /\ f.applicationname = name

MatchesByIdentity(f, name) == f.name = name

IndexedRecords == {Index[k][2] : k \in 1..Len(Index)}

\* the "no local content" sentinel of the record's location
NO_LOCAL_CONTENT == Str(".")

IsRemoteReference(location) == location = Str("s3://bucket/app.yaml")

----------------------------------------------------------------------------
(* C1: get with an empty or absent name raises ValueError and hands back   *)
(* nothing, whatever the index holds, and the call changes neither the     *)
(* provider nor the template.                                              *)
C1_EmptyNameRaisesValueError ==
    [][ (result'.op = "get" /\ result'.arg \in {None, Str("")})
          => /\ result'.raises = "ValueError"
             /\ result'.value = <<>>
             /\ self' = self
             /\ template_dict' = template_dict ]_vars

C1_Witness ==
    /\ pc = "ready"
    /\ Len(Index) = MaxResources
    /\ result.op = "get"
    /\ result.arg = None
    /\ result.raises = "ValueError"

(* C2: after construction get(identity) returns the record built from the  *)
(* resource declared under that logical id, and get(displayName) returns   *)
(* the record that carries that displayName.                                *)
C2_GetReturnsTheRecord ==
    (pc = "ready" /\ result.op = "get")
      => /\ \A k \in 1..Len(RecognizedIds) :
               result.arg = Str(RecognizedIds[k])
                 => /\ result.raises = ""
                    /\ Len(result.value) = 1
                    /\ result.value[1].name = Str(RecognizedIds[k])
         /\ \A f \in IndexedRecords :
               MatchesByDisplayName(f, result.arg)
                 => result.raises = "" /\ result.value = <<f>>

(* C3: get_all yields every indexed record exactly once, in the order the  *)
(* resources were declared, on every call.                                  *)
C3_GetAllYieldsIndexInOrder ==
    (pc = "ready" /\ result.op = "get_all")
      => /\ result.raises = ""
         /\ result.value = Values(Index)
         /\ [k \in 1..Len(result.value) |-> result.value[k].name]
              = [k \in 1..Len(RecognizedIds) |-> Str(RecognizedIds[k])]

(* C4: the index holds a record for a resource exactly when its type tag   *)
(* is the provider's, and get_all yields as many records as there are      *)
(* resources with that tag.                                                 *)
C4_RecordIffRecognizedTag ==
    pc = "ready"
      => /\ Keys(Index) = {RecognizedIds[k] : k \in 1..Len(RecognizedIds)}
         /\ result.op = "get_all"
              => result.raises = "" /\ Len(result.value) = Len(RecognizedIds)

(* C5: get with a non-empty name that is neither the identity nor the      *)
(* displayName of an indexed record returns None and does not raise.       *)
C5_UnknownNameReturnsNone ==
    ( /\ pc = "ready"
      /\ result.op = "get"
      /\ Truthy(result.arg)
      /\ \A f \in IndexedRecords :
            ~MatchesByIdentity(f, result.arg) /\ ~MatchesByDisplayName(f, result.arg) )
      => result.raises = "" /\ result.value = <<>>

(* C6: the constructor leaves the template it was passed as it was.        *)
C6_ConstructionKeepsTemplate ==
    pc = "ready" => template_dict = input0

(* C7: once ready, the index stays what construction built and get_all     *)
(* yields those records, whatever queries and template changes follow.     *)
C7_IndexFixedAfterConstruction ==
    pc = "ready"
      => LET built == extract_loop(Declared, FALSE)
         IN  /\ Index = built
             /\ result.op = "get_all"
                  => result.raises = "" /\ result.value = Values(built)

(* C8: every record's location is defined: a local path is kept, a remote  *)
(* reference or a structured pointer becomes the sentinel.                  *)
C8_LocationNormalized ==
    pc = "ready"
      => \A e \in {Declared[k] : k \in 1..Len(Declared)} :
            HasTag(e[2], SERVERLESS_APPLICATION)
              => LET declared == Get(DeclaredProperties(e[2]).v, "Location", None)
                     location == RecordOf(e[1]).location
                 IN  /\ location.t # "none"
                     /\ (declared.t = "str" /\ ~IsRemoteReference(declared))
                           => location = declared
                     /\ (IsRemoteReference(declared) \/ declared.t = "dict")
                           => location = NO_LOCAL_CONTENT

(* C9: a resource under the declarative tag and a resource under the       *)
(* expanded tag with the same properties are both indexed, and their       *)
(* records differ in the identity alone.                                    *)
C9_BothTagsSameRecord ==
    pc = "ready"
      => \A a, b \in {Declared[k] : k \in 1..Len(Declared)} :
            ( /\ HasTag(a[2], SERVERLESS_APPLICATION)
              /\ HasTag(b[2], CLOUDFORMATION_STACK)
              /\ DeclaredProperties(a[2]) = DeclaredProperties(b[2])
              /\ Get(a[2], "Metadata", None) = Get(b[2], "Metadata", None) )
              => /\ {a[1], b[1]} \subseteq Keys(Index)
                 /\ [RecordOf(a[1]) EXCEPT !.name = None]
                      = [RecordOf(b[1]) EXCEPT !.name = None]

(* C10: get(name) returns the record whose displayName is name when there  *)
(* is one, and otherwise the record whose identity is name.                 *)
C10_DisplayNameBeforeIdentity ==
    ( /\ pc = "ready"
      /\ result.op = "get"
      /\ Truthy(result.arg) )
      => /\ \A f \in IndexedRecords :
               MatchesByDisplayName(f, result.arg)
                 => result.raises = "" /\ result.value = <<f>>
         /\ \A f \in IndexedRecords :
               ( /\ MatchesByIdentity(f, result.arg)
                 /\ \A g \in IndexedRecords : ~MatchesByDisplayName(g, result.arg) )
                 => result.raises = "" /\ result.value = <<f>>

====
